---- MODULE Spec2Model ----
(***************************************************************************)
(* Model of the bingo card generator (bingo_gen.py) and of the card file   *)
(* reader (media_gen.py).                                                  *)
(*                                                                         *)
(* Python lists are sequences; a list index k of the source is k + 1 here. *)
(* A card is a sequence of 5 rows, each a sequence of 5 integers.  Text is *)
(* a sequence of one-character strings, a file a sequence of lines (the    *)
(* text of each line without its newline).                                 *)
(***************************************************************************)
EXTENDS Integers, Sequences, FiniteSets, TLC

(***************************************************************************)
(* Bounds of the model.                                                    *)
(***************************************************************************)
MaxNumCards == 3     \* num_cards ranges over 1..MaxNumCards
MaxBudget == 2       \* max_attempts ranges over 0..MaxBudget
MaxSeed == 6         \* results of the random source: RandomDraws[1..MaxSeed]
MaxSaved == 2        \* longest batch handed to save_cards_to_file
MaxChunks == 3       \* longest input file of the reader, in chunks

\* No run draws more candidates than this; it keeps the draw counter finite.
DrawCap == MaxNumCards * (MaxBudget + 1) + 1

(***************************************************************************)
(* The random source.  random.shuffle(x) runs, for i = len(x)-1 down to 1, *)
(* j = randbelow(i + 1); x[i], x[j] = x[j], x[i].  One entry of            *)
(* RandomDraws is one outcome of the 24 randbelow calls of one shuffle:    *)
(* entry[i] is the j drawn for index i (0 <= j <= i).                      *)
(***************************************************************************)
RandomDraws ==
  << <<1, 2, 3, 4, 5, 6, 7, 8, 9, 10, 11, 12, 13, 14, 15, 16, 17, 18, 19, 20, 21, 22, 23, 24>>,
     <<0, 0, 1, 4, 2, 4, 1, 2, 6, 4, 2, 8, 0, 3, 1, 12, 1, 7, 3, 18, 1, 13, 17, 2>>,
     <<1, 0, 3, 3, 1, 6, 4, 0, 2, 1, 9, 10, 8, 3, 7, 15, 3, 12, 16, 20, 5, 3, 4, 12>>,
     <<0, 2, 2, 1, 2, 3, 5, 0, 8, 7, 5, 2, 10, 10, 1, 13, 1, 1, 7, 6, 17, 9, 15, 0>>,
     <<1, 2, 3, 4, 1, 6, 7, 8, 9, 2, 7, 12, 13, 14, 3, 8, 13, 18, 19, 4, 9, 14, 19, 24>>,
     <<0, 1, 3, 0, 2, 5, 6, 4, 7, 9, 10, 4, 11, 11, 1, 2, 15, 8, 2, 2, 14, 18, 15, 19>>,
     <<1, 2, 1, 0, 5, 6, 7, 6, 5, 10, 11, 12, 11, 10, 15, 16, 17, 16, 15, 20, 21, 22, 21, 20>>,
     <<1, 2, 2, 4, 3, 1, 4, 6, 7, 2, 1, 7, 13, 14, 12, 12, 7, 4, 9, 6, 1, 15, 3, 19>> >>

Seeds == 1..MaxSeed

VARIABLES
  num_cards,      \* generate_unique_cards: parameter
  max_attempts,   \* generate_unique_cards: parameter
  cards,          \* generate_unique_cards: the batch
  attempts,       \* generate_unique_cards: the attempt counter
  new_card,       \* generate_unique_cards: the last candidate (<<>> before the first)
  valid,          \* generate_unique_cards: the verdict on the last candidate
  pc,             \* "loop" at the head of the while loop, "done" after return
  draws,          \* history: number of calls of generate_random_card
  rejected,       \* history: candidates rejected since the last acceptance
  source,         \* reader: "saved" (file written by save_cards_to_file) or "input"
  file,           \* reader: the lines of the file being read
  pos,            \* reader: index of the next line of the file
  rcards,         \* read_cards_from_file: cards
  current_card,   \* read_cards_from_file: current_card
  r_pc            \* reader: "idle", "reading", "done", "error" (ValueError raised)

gen_vars == <<num_cards, max_attempts, cards, attempts, new_card, valid, pc, draws, rejected>>
read_vars == <<source, file, pos, rcards, current_card, r_pc>>
vars == <<num_cards, max_attempts, cards, attempts, new_card, valid, pc, draws, rejected,
          source, file, pos, rcards, current_card, r_pc>>

(***************************************************************************)
(* Helpers for Python built-ins.                                           *)
(***************************************************************************)
SeqToSet(s) == {s[k] : k \in DOMAIN s}

\* sorted(s): ascending.
sorted(s) == SortSeq(s, LAMBDA a, b : a < b)

\* x[i], x[j] = x[j], x[i] with 0-based i, j.
Swap(x, i, j) ==
  [k \in DOMAIN x |-> IF k = i + 1 THEN x[j + 1] ELSE IF k = j + 1 THEN x[i + 1] ELSE x[k]]

\* random.shuffle(x) with the randbelow results js, from index i down to 1.
RECURSIVE ShuffleFrom(_, _, _)
ShuffleFrom(x, js, i) ==
  IF i < 1 THEN x ELSE ShuffleFrom(Swap(x, i, js[i]), js, i - 1)

shuffle(x, js) == ShuffleFrom(x, js, Len(x) - 1)

(***************************************************************************)
(* bingo_gen.py: line extraction.                                          *)
(***************************************************************************)
get_rows(card) == [r \in DOMAIN card |-> sorted(card[r])]

get_columns_transposed(card) ==
  [j \in 1..5 |-> sorted([i \in 1..5 |-> card[j][i]])]

get_columns(card) ==
  [j \in 1..5 |-> sorted([i \in 1..5 |-> card[i][j]])]

get_diagonals_unsorted(card) ==
  << [i \in 1..5 |-> card[i][i]], [i \in 1..5 |-> card[i][6 - i]] >>

get_diagonals(card) ==
  << sorted([i \in 1..5 |-> card[i][i]]), sorted([i \in 1..5 |-> card[i][6 - i]]) >>

get_all_lines(card) ==
  SeqToSet(get_rows(card)) \cup SeqToSet(get_columns(card)) \cup SeqToSet(get_diagonals(card))

cards_share_line(card1, card2) ==
  Cardinality(get_all_lines(card1) \cap get_all_lines(card2)) > 0

(***************************************************************************)
(* bingo_gen.py: generate_random_card.                                     *)
(***************************************************************************)
\* card = [numbers[i*5:(i+1)*5] for i in range(5)]
Reshape_overlapping(numbers) ==
  [i \in 1..5 |-> [j \in 1..5 |-> numbers[(i - 1) * 4 + j]]]

Reshape(numbers) ==
  [i \in 1..5 |-> [j \in 1..5 |-> numbers[(i - 1) * 5 + j]]]

generate_random_card(js) ==
  LET numbers == [k \in 1..25 |-> k]
  IN  Reshape(shuffle(numbers, js))

\* The card generate_random_card returns for each outcome of the random source.
CandidateCards ==
  [seed \in DOMAIN RandomDraws |-> generate_random_card(RandomDraws[seed])]

(***************************************************************************)
(* bingo_gen.py: generate_unique_cards.                                    *)
(***************************************************************************)
\* while len(cards) < num_cards and attempts < max_attempts
LoopCond_no_budget(cs, a, n, m) == Len(cs) < n

LoopCond(cs, a, n, m) == Len(cs) < n /\ a < m

\* the for loop over the existing cards, with its break
IsValid_skip_first(c, cs) ==
  \A k \in 2..Len(cs) : ~cards_share_line(c, cs[k])

IsValid(c, cs) ==
  \A k \in 1..Len(cs) : ~cards_share_line(c, cs[k])

\* cards.append(new_card)
AppendCard_front(cs, c) == <<c>> \o cs

AppendCard(cs, c) == Append(cs, c)

\* attempts = 0  # Reset attempts counter
ResetAttempts_kept(a) == a

ResetAttempts(a) == 0

GenInit ==
  /\ num_cards \in 1..MaxNumCards
  /\ max_attempts \in 0..MaxBudget
  /\ cards = <<>>
  /\ attempts = 0
  /\ new_card = <<>>
  /\ valid = TRUE
  /\ pc = "loop"
  /\ draws = 0
  /\ rejected = 0

ReaderIdle ==
  /\ source = "input"
  /\ file = <<>>
  /\ pos = 1
  /\ rcards = <<>>
  /\ current_card = <<>>
  /\ r_pc = "idle"

Init == GenInit /\ ReaderIdle

\* One iteration of the while loop: attempts += 1, a candidate is drawn and
\* checked against the batch, and appended (with the counter reset) if valid.
Iterate(seed) ==
  /\ pc = "loop"
  /\ draws < DrawCap
  /\ LoopCond(cards, attempts, num_cards, max_attempts)
  /\ new_card' = CandidateCards[seed]
  /\ valid' = IsValid(CandidateCards[seed], cards)
  /\ cards' = IF valid' THEN AppendCard(cards, new_card') ELSE cards
  /\ attempts' = IF valid' THEN ResetAttempts(attempts + 1) ELSE attempts + 1
  /\ draws' = draws + 1
  /\ rejected' = IF valid' THEN 0 ELSE rejected + 1
  /\ UNCHANGED <<num_cards, max_attempts, pc>>
  /\ UNCHANGED read_vars

\* The loop condition fails: the warning (if any) is printed, cards is returned.
Return ==
  /\ pc = "loop"
  /\ ~LoopCond(cards, attempts, num_cards, max_attempts)
  /\ pc' = "done"
  /\ UNCHANGED <<num_cards, max_attempts, cards, attempts, new_card, valid, draws, rejected>>
  /\ UNCHANGED read_vars

Next ==
  \/ \E seed \in Seeds : Iterate(seed)
  \/ Return

Spec == Init /\ [][Next]_vars

\* The loop is the only thing the process does: it keeps stepping until it returns.
FairSpec == Spec /\ WF_vars(Next)

(***************************************************************************)
(* bingo_gen.py: save_cards_to_file.  The file is the sequence of its      *)
(* lines; each f.write call ends its text with "\n".                        *)
(***************************************************************************)
SepWidth == 27

Digits == <<"0", "1", "2", "3", "4", "5", "6", "7", "8", "9">>

Repeat(c, n) == [k \in 1..n |-> c]

\* str(n) for n >= 0
RECURSIVE Decimal(_)
Decimal(n) ==
  IF n < 10 THEN <<Digits[n + 1]>> ELSE Decimal(n \div 10) \o <<Digits[(n % 10) + 1]>>

\* f"{num:2d}": decimal, right-aligned in a field of width 2
Format2d(num) ==
  LET t == IF num < 0 THEN <<"-">> \o Decimal(0 - num) ELSE Decimal(num)
  IN  IF Len(t) < 2 THEN Repeat(" ", 2 - Len(t)) \o t ELSE t

\* sep.join(parts)
RECURSIVE Join(_, _)
Join(sep, parts) ==
  IF parts = <<>> THEN <<>>
  ELSE IF Len(parts) = 1 THEN parts[1]
  ELSE parts[1] \o sep \o Join(sep, Tail(parts))

\* f"{'='*27}"
SeparatorLine == Repeat("=", SepWidth)

\* f"  CARD {i:2d}"
HeaderLine(i) == <<" ", " ", "C", "A", "R", "D", " ">> \o Format2d(i)

\* "  " + "  ".join(f"{num:2d}" for num in row)
RowLine(row) ==
  <<" ", " ">> \o Join(<<" ", " ">>, [k \in DOMAIN row |-> Format2d(row[k])])

\* The lines written for card number i; the last write ends with "\n\n".
CardBlock(card, i) ==
  <<SeparatorLine, HeaderLine(i), SeparatorLine>>
    \o [r \in DOMAIN card |-> RowLine(card[r])]
    \o <<SeparatorLine, <<>> >>

RECURSIVE SaveFrom(_, _)
SaveFrom(cs, i) ==
  IF i > Len(cs) THEN <<>> ELSE CardBlock(cs[i], i) \o SaveFrom(cs, i + 1)

save_cards_to_file(cs) == SaveFrom(cs, 1)

(***************************************************************************)
(* media_gen.py: read_cards_from_file.                                     *)
(***************************************************************************)
IsSpace(c) == c \in {" ", "\t", "\n", "\r"}

\* line.strip()
strip(line) ==
  LET keep == {k \in DOMAIN line : ~IsSpace(line[k])}
  IN  IF keep = {} THEN <<>>
      ELSE SubSeq(line, CHOOSE k \in keep : \A m \in keep : k <= m,
                        CHOOSE k \in keep : \A m \in keep : m <= k)

\* line.split(): the maximal runs of non-space characters, from position k,
\* with cur the run being read.
RECURSIVE SplitFrom(_, _, _)
SplitFrom(line, k, cur) ==
  IF k > Len(line) THEN (IF cur = <<>> THEN <<>> ELSE <<cur>>)
  ELSE IF IsSpace(line[k])
       THEN (IF cur = <<>> THEN <<>> ELSE <<cur>>) \o SplitFrom(line, k + 1, <<>>)
       ELSE SplitFrom(line, k + 1, Append(cur, line[k]))

split(line) == SplitFrom(line, 1, <<>>)

IsDigit(c) == \E d \in DOMAIN Digits : Digits[d] = c

\* The digits of a token after its optional sign.
Unsigned(tok) == IF tok # <<>> /\ tok[1] \in {"+", "-"} THEN Tail(tok) ELSE tok

\* int(tok) returns a value (it raises ValueError otherwise): an optional
\* sign and at least one decimal digit.
IsIntLiteral(tok) ==
  /\ Unsigned(tok) # <<>>
  /\ \A k \in DOMAIN Unsigned(tok) : IsDigit(Unsigned(tok)[k])

RECURSIVE DigitsValue(_)
DigitsValue(ds) ==
  IF ds = <<>> THEN 0
  ELSE 10 * DigitsValue(SubSeq(ds, 1, Len(ds) - 1))
         + ((CHOOSE d \in DOMAIN Digits : Digits[d] = ds[Len(ds)]) - 1)

\* int(tok)
int(tok) ==
  IF tok[1] = "-" THEN 0 - DigitsValue(Unsigned(tok)) ELSE DigitsValue(Unsigned(tok))

\* The stripped text of the line the for loop is at.
CurrentLine == strip(file[pos])

\* if not line: continue
SkipEmpty ==
  /\ r_pc = "reading"
  /\ pos <= Len(file)
  /\ CurrentLine = <<>>
  /\ pos' = pos + 1
  /\ UNCHANGED <<source, file, rcards, current_card, r_pc>>
  /\ UNCHANGED gen_vars

\* if line == '=': the current card, if it has any row, is closed
EndOfCard ==
  /\ r_pc = "reading"
  /\ pos <= Len(file)
  /\ CurrentLine = <<"=">>
  /\ IF current_card # <<>>
     THEN rcards' = Append(rcards, current_card) /\ current_card' = <<>>
     ELSE UNCHANGED <<rcards, current_card>>
  /\ pos' = pos + 1
  /\ UNCHANGED <<source, file, r_pc>>
  /\ UNCHANGED gen_vars

\* else: the row is parsed, and kept if it has 5 numbers
ParseRow ==
  /\ r_pc = "reading"
  /\ pos <= Len(file)
  /\ CurrentLine # <<>>
  /\ CurrentLine # <<"=">>
  /\ LET toks == split(CurrentLine)
     IN  /\ \A k \in DOMAIN toks : IsIntLiteral(toks[k])
         /\ LET row == [k \in DOMAIN toks |-> int(toks[k])]
            IN  current_card' =
                  IF Len(row) = 5 THEN Append(current_card, row) ELSE current_card
  /\ pos' = pos + 1
  /\ UNCHANGED <<source, file, rcards, r_pc>>
  /\ UNCHANGED gen_vars

\* else: int(num) raises ValueError, which read_cards_from_file lets through
ParseError ==
  /\ r_pc = "reading"
  /\ pos <= Len(file)
  /\ CurrentLine # <<>>
  /\ CurrentLine # <<"=">>
  /\ \E k \in DOMAIN split(CurrentLine) : ~IsIntLiteral(split(CurrentLine)[k])
  /\ r_pc' = "error"
  /\ UNCHANGED <<source, file, pos, rcards, current_card>>
  /\ UNCHANGED gen_vars

\* After the loop: the last card is added if it has 5 rows; cards is returned.
Finish ==
  /\ r_pc = "reading"
  /\ pos > Len(file)
  /\ IF current_card # <<>> /\ Len(current_card) = 5
     THEN rcards' = Append(rcards, current_card)
     ELSE rcards' = rcards
  /\ r_pc' = "done"
  /\ UNCHANGED <<source, file, pos, current_card>>
  /\ UNCHANGED gen_vars

(***************************************************************************)
(* The files read_cards_from_file is run on: the file save_cards_to_file   *)
(* wrote for a batch, or any text made of the chunks below.                *)
(***************************************************************************)
\* A row of numbers separated by single spaces.
InputRow(row) == Join(<<" ">>, [k \in DOMAIN row |-> Decimal(row[k])])

Chunks ==
  << [r \in 1..5 |-> InputRow(CandidateCards[2][r])],   \* the 5 rows of a card
     << <<"=">> >>,                                      \* an end-of-card line
     << <<>> >>,                                         \* an empty line
     << InputRow(<<1, 2, 3, 4, 5>>) >>,                  \* one row
     << InputRow(<<1, 2, 3, 4>>) >>,                     \* a row of 4 numbers
     << HeaderLine(1) >>,                                \* a header line
     << SeparatorLine >> >>                              \* a 27-character separator

RECURSIVE Flatten(_)
Flatten(chunkIds) ==
  IF chunkIds = <<>> THEN <<>> ELSE Chunks[Head(chunkIds)] \o Flatten(Tail(chunkIds))

InputFiles ==
  {Flatten(ids) : ids \in UNION {[1..n -> DOMAIN Chunks] : n \in 0..MaxChunks}}

\* The batches generate_unique_cards can return, of 1..MaxSaved cards.
SavedBatches ==
  {cs \in UNION {[1..n -> {CandidateCards[seed] : seed \in Seeds}] : n \in 1..MaxSaved} :
     \A k \in DOMAIN cs : IsValid(cs[k], SubSeq(cs, 1, k - 1))}

ReaderInit ==
  /\ source \in {"saved", "input"}
  /\ cards \in (IF source = "saved" THEN SavedBatches ELSE {<<>>})
  /\ file \in (IF source = "saved" THEN {save_cards_to_file(cards)} ELSE InputFiles)
  /\ num_cards = (IF source = "saved" THEN Len(cards) ELSE 1)
  /\ max_attempts = 1
  /\ attempts = 0
  /\ new_card = (IF source = "saved" THEN cards[Len(cards)] ELSE <<>>)
  /\ valid = TRUE
  /\ pc = "done"
  /\ draws = Len(cards)
  /\ rejected = 0
  /\ pos = 1
  /\ rcards = <<>>
  /\ current_card = <<>>
  /\ r_pc = "reading"

ReaderNext ==
  \/ SkipEmpty
  \/ EndOfCard
  \/ ParseRow
  \/ ParseError
  \/ Finish

ReaderSpec == ReaderInit /\ [][ReaderNext]_vars

(***************************************************************************)
(* Properties of the generator.                                            *)
(***************************************************************************)
\* The cards the run has seen: the batch and the last candidate.
KnownCards == SeqToSet(cards) \cup (IF new_card = <<>> THEN {} ELSE {new_card})

\* The 5 values of each row, column and diagonal of a card, as plain sets.
ValueSets(card) ==
  {{card[i][j] : j \in 1..5} : i \in 1..5}
    \cup {{card[i][j] : i \in 1..5} : j \in 1..5}
    \cup {{card[i][i] : i \in 1..5}, {card[i][6 - i] : i \in 1..5}}

\* The rows, columns and diagonals of a card in cell order.
RawLines(card) ==
  {card[i] : i \in 1..5}
    \cup {[i \in 1..5 |-> card[i][j]] : j \in 1..5}
    \cup {[i \in 1..5 |-> card[i][i]], [i \in 1..5 |-> card[i][6 - i]]}

\* Each row reversed: the values inside every row are reordered.
MirrorRows(card) == [i \in 1..5 |-> [j \in 1..5 |-> card[i][6 - j]]]

\* The rows in reverse order: the values inside every column are reordered.
FlipColumns(card) == [i \in 1..5 |-> card[6 - i]]

IsPermCard(card) ==
  /\ Len(card) = 5
  /\ \A i \in 1..5 : Len(card[i]) = 5
  /\ \A v \in 1..25 :
       Cardinality({ij \in (1..5) \X (1..5) : card[ij[1]][ij[2]] = v}) = 1

IsSortedTuple(l) == Len(l) = 5 /\ \A k \in 1..4 : l[k] < l[k + 1]

\* C1: in every state of generate_unique_cards, two cards at distinct
\* positions of the batch have no line in common.
C1_PairwiseDisjoint ==
  \A i \in 1..Len(cards) : \A j \in 1..Len(cards) :
    i # j => get_all_lines(cards[i]) \cap get_all_lines(cards[j]) = {}

\* A returned batch of at least two cards, built with rejections on the way.
C1_Witness == pc = "done" /\ Len(cards) >= 2 /\ draws > Len(cards)

\* C2: generate_unique_cards returns in every run, and never draws more than
\* num_cards * max_attempts candidates.
C2_BoundedResampling ==
  /\ [](draws <= num_cards * max_attempts)
  /\ <>(pc = "done")

\* A run that returned after every slot but the first used its whole budget.
C2_Witness ==
  /\ pc = "done"
  /\ num_cards >= 2
  /\ max_attempts >= 2
  /\ draws = 1 + (num_cards - 1) * max_attempts

\* C3: the returned batch is short exactly when max_attempts candidates in a
\* row were rejected since the last acceptance, and the attempt counter
\* counts only the candidates drawn since the last acceptance.
C3_PartialIffExhausted ==
  /\ attempts = rejected
  /\ pc = "done" => (Len(cards) < num_cards <=> rejected = max_attempts)

\* A short batch returned after earlier slots had used attempts of their own.
C3_Witness ==
  /\ pc = "done"
  /\ Len(cards) < num_cards
  /\ Len(cards) >= 2
  /\ draws > Len(cards) + max_attempts

\* C4: a step of generate_unique_cards either leaves the batch alone or
\* appends the accepted candidate at its end; a rejected candidate leaves it
\* alone; the batch never grows beyond num_cards.
C4_AppendOnly ==
  [][ /\ \/ cards' = cards
         \/ /\ Len(cards') = Len(cards) + 1
            /\ SubSeq(cards', 1, Len(cards)) = cards
            /\ cards'[Len(cards')] = new_card'
            /\ valid'
      /\ (draws' > draws /\ ~valid') => cards' = cards
      /\ pc' = "done" => cards' = cards
      /\ Len(cards') <= num_cards ]_vars

\* The budget ran out on the third slot: the two accepted cards are returned.
C4_Witness ==
  /\ pc = "done"
  /\ Len(cards) = 2
  /\ num_cards > 2
  /\ ~valid

\* C5: every candidate and every card of the batch holds each of 1..25
\* exactly once in a 5x5 grid.
C5_CardsArePermutations == \A c \in KnownCards : IsPermCard(c)

\* A shuffled candidate (not in ascending order) met a batch of two cards.
C5_Witness ==
  /\ Len(cards) >= 2
  /\ new_card # <<>>
  /\ new_card[1] # <<1, 2, 3, 4, 5>>
  /\ ~valid

\* C6: get_all_lines of a card is 12 distinct sorted 5-tuples, one for each
\* row, column and diagonal.
C6_TwelveLines ==
  \A c \in KnownCards :
    LET lines == get_all_lines(c)
    IN  /\ Cardinality(lines) = 12
        /\ \A l \in lines : IsSortedTuple(l)
        /\ {SeqToSet(l) : l \in lines} = ValueSets(c)

\* Lines were taken of a card none of whose rows is in ascending order.
C6_Witness ==
  /\ new_card # <<>>
  /\ \A i \in 1..5 : ~IsSortedTuple(new_card[i])
  /\ Len(cards) >= 1

\* C7: cards_share_line holds exactly when a row, column or diagonal of one
\* card has the same 5 values as a row, column or diagonal of the other; it
\* is symmetric and does not depend on the order of the values in a line.
C7_ShareIffSameValues ==
  new_card # <<>> =>
    \A b \in KnownCards :
      LET shared == cards_share_line(new_card, b)
      IN  /\ shared <=> (ValueSets(new_card) \cap ValueSets(b) # {})
          /\ shared <=> cards_share_line(b, new_card)
          /\ shared <=> cards_share_line(MirrorRows(new_card), b)
          /\ shared <=> cards_share_line(FlipColumns(new_card), b)

\* A candidate was rejected for a line whose values stand in another order
\* (and in a line of another kind) than in the card of the batch.
C7_Witness ==
  /\ new_card # <<>>
  /\ ~valid
  /\ \E k \in 1..Len(cards) :
       /\ cards_share_line(new_card, cards[k])
       /\ RawLines(new_card) \cap RawLines(cards[k]) = {}

(***************************************************************************)
(* Properties of the reader.                                               *)
(***************************************************************************)
\* A non-empty line that is not the '=' line and is not 5 integers.
Malformed(line) ==
  /\ strip(line) # <<>>
  /\ strip(line) # <<"=">>
  /\ ~ /\ Len(split(strip(line))) = 5
       /\ \A k \in DOMAIN split(strip(line)) : IsIntLiteral(split(strip(line))[k])

\* C8: when read_cards_from_file meets a malformed line, it reports a
\* failure to its caller instead of going on to the next line.
C8_MalformedReported ==
  [][(r_pc = "reading" /\ pos <= Len(file) /\ Malformed(file[pos]))
       => r_pc' = "error"]_vars

\* C9: reading the file save_cards_to_file wrote for a batch ends without
\* error and returns that batch.
C9_RoundTrip ==
  (source = "saved" /\ r_pc \in {"done", "error"})
    => (r_pc = "done" /\ rcards = cards)

\* C10: every card read_cards_from_file holds in its result is 5 rows of 5
\* integers.
C10_CardsAreGrids ==
  \A k \in DOMAIN rcards :
    /\ Len(rcards[k]) = 5
    /\ \A r \in DOMAIN rcards[k] : Len(rcards[k][r]) = 5

====
